---- MODULE Spec2Model ----
(***************************************************************************)
(* Model of backend/venv/app.py: the arXiv research dashboard backend.     *)
(*                                                                         *)
(* Metadata strings (queries, links, titles) are sequences of one-         *)
(* character strings.  Extracted document texts are long (the code's       *)
(* thresholds are 100, 1000 and 15000 characters), so they are kept        *)
(* run-length encoded: a text is a sequence of runs <<c, n>>, n > 0, no    *)
(* two adjacent runs with the same character.  The encoding is canonical,  *)
(* so equality of encodings is equality of strings.                        *)
(***************************************************************************)
EXTENDS Integers, Sequences, FiniteSets, TLC

Min(a, b) == IF a < b THEN a ELSE b
Max(a, b) == IF a > b THEN a ELSE b

(***************************************************************************)
(* Python str, run-length encoded                                          *)
(***************************************************************************)

\* c * n
Rep(c, n) == IF n <= 0 THEN <<>> ELSE << <<c, n>> >>

\* a + b
Cat(a, b) ==
    IF a = <<>> THEN b
    ELSE IF b = <<>> THEN a
    ELSE IF a[Len(a)][1] = b[1][1]
         THEN SubSeq(a, 1, Len(a) - 1)
                  \o << <<b[1][1], a[Len(a)][2] + b[1][2]>> >>
                  \o Tail(b)
         ELSE a \o b

\* a str literal, from its characters
RECURSIVE Str(_)
Str(chars) ==
    IF chars = <<>> THEN <<>>
    ELSE Cat(Rep(Head(chars), 1), Str(Tail(chars)))

\* len(s)
RECURSIVE len(_)
len(s) == IF s = <<>> THEN 0 ELSE s[1][2] + len(Tail(s))

\* the first n characters of s, 0 <= n
RECURSIVE Take(_, _)
Take(s, n) ==
    IF n <= 0 \/ s = <<>> THEN <<>>
    ELSE IF s[1][2] >= n THEN Rep(s[1][1], n)
    ELSE <<s[1]>> \o Take(Tail(s), n - s[1][2])

\* s without its first n characters, 0 <= n
RECURSIVE Drop(_, _)
Drop(s, n) ==
    IF s = <<>> THEN <<>>
    ELSE IF n <= 0 THEN s
    ELSE IF s[1][2] > n THEN <<<<s[1][1], s[1][2] - n>>>> \o Tail(s)
    ELSE Drop(Tail(s), n - s[1][2])

\* a slice index as Python normalises it: negative counts from the end,
\* and the result is clamped to 0..len(s)
SliceIndex(s, i) == IF i < 0 THEN Max(len(s) + i, 0) ELSE Min(i, len(s))

\* s[start:stop]
Slice(s, start, stop) ==
    LET lo == SliceIndex(s, start)
        hi == SliceIndex(s, stop)
    IN  IF hi <= lo THEN <<>> ELSE Take(Drop(s, lo), hi - lo)

\* s[:stop]
SliceTo(s, stop) == Slice(s, 0, stop)

\* s[start:]
SliceFrom(s, start) == Slice(s, start, len(s))

\* the characters str.strip() removes
Whitespace == {" ", "\t", "\n", "\r"}

RECURSIVE lstrip(_)
lstrip(s) ==
    IF s = <<>> THEN <<>>
    ELSE IF s[1][1] \in Whitespace THEN lstrip(Tail(s))
    ELSE s

RECURSIVE rstrip(_)
rstrip(s) ==
    IF s = <<>> THEN <<>>
    ELSE IF s[Len(s)][1] \in Whitespace THEN rstrip(SubSeq(s, 1, Len(s) - 1))
    ELSE s

\* s.strip()
strip(s) == rstrip(lstrip(s))

\* str(n) for n >= 0
Digit(d) == CASE d = 0 -> "0" [] d = 1 -> "1" [] d = 2 -> "2" [] d = 3 -> "3"
              [] d = 4 -> "4" [] d = 5 -> "5" [] d = 6 -> "6" [] d = 7 -> "7"
              [] d = 8 -> "8" [] d = 9 -> "9"

\* the decimal digits of n >= 0
RECURSIVE Decimal(_)
Decimal(n) ==
    IF n < 10 THEN <<Digit(n)>>
    ELSE Decimal(n \div 10) \o <<Digit(n % 10)>>

str(n) == Str(Decimal(n))


(***************************************************************************)
(* Short strings as plain character sequences (links, questions)           *)
(***************************************************************************)

\* s.startswith(prefix)
StartsWith(s, prefix) ==
    Len(prefix) <= Len(s) /\ SubSeq(s, 1, Len(prefix)) = prefix

\* sub in s
Contains(s, sub) ==
    \E i \in 1..(Len(s) - Len(sub) + 1) :
        \A j \in 1..Len(sub) : s[i + j - 1] = sub[j]

\* s.replace(old, new), old non-empty: every non-overlapping occurrence,
\* leftmost first
RECURSIVE Replace(_, _, _)
Replace(s, old, new) ==
    IF s = <<>> THEN <<>>
    ELSE IF StartsWith(s, old)
         THEN new \o Replace(SubSeq(s, Len(old) + 1, Len(s)), old, new)
         ELSE <<Head(s)>> \o Replace(Tail(s), old, new)

\* s.strip()
RECURSIVE chars_lstrip(_)
chars_lstrip(s) ==
    IF s # <<>> /\ Head(s) \in Whitespace THEN chars_lstrip(Tail(s)) ELSE s

RECURSIVE chars_rstrip(_)
chars_rstrip(s) ==
    IF s # <<>> /\ s[Len(s)] \in Whitespace
    THEN chars_rstrip(SubSeq(s, 1, Len(s) - 1))
    ELSE s

chars_strip(s) == chars_rstrip(chars_lstrip(s))

UpperCase ==
    <<"A","B","C","D","E","F","G","H","I","J","K","L","M",
      "N","O","P","Q","R","S","T","U","V","W","X","Y","Z">>

LowerCase ==
    <<"a","b","c","d","e","f","g","h","i","j","k","l","m",
      "n","o","p","q","r","s","t","u","v","w","x","y","z">>

\* c.lower(), c one character
char_lower(c) ==
    IF \E k \in 1..Len(UpperCase) : UpperCase[k] = c
    THEN LowerCase[CHOOSE k \in 1..Len(UpperCase) : UpperCase[k] = c]
    ELSE c

\* s.lower(); SubSeq makes the function a sequence once and for all
chars_lower(s) ==
    SubSeq([i \in 1..Len(s) |-> char_lower(s[i])], 1, Len(s))

\* s.split(): the maximal runs of characters that are not whitespace
RECURSIVE chars_split(_)
chars_split(s) ==
    LET t == chars_lstrip(s)
        WordEnd[i \in 0..Len(t)] ==
            IF i < Len(t) /\ t[i + 1] \notin Whitespace THEN WordEnd[i + 1] ELSE i
    IN  IF t = <<>> THEN <<>>
        ELSE <<SubSeq(t, 1, WordEnd[0])>>
                 \o chars_split(SubSeq(t, WordEnd[0] + 1, Len(t)))

\* re.sub(r'\s\s', ' ', s): whitespace collapsed two characters at a time
RECURSIVE collapse_whitespace_in_pairs(_)
collapse_whitespace_in_pairs(s) ==
    IF s = <<>> THEN <<>>
    ELSE IF Len(s) >= 2 /\ s[1] \in Whitespace /\ s[2] \in Whitespace
         THEN <<" ">> \o collapse_whitespace_in_pairs(SubSeq(s, 3, Len(s)))
         ELSE <<Head(s)>> \o collapse_whitespace_in_pairs(Tail(s))

\* re.sub(r'\s+', ' ', s)
RECURSIVE collapse_whitespace(_)
collapse_whitespace(s) ==
    IF s = <<>> THEN <<>>
    ELSE IF Head(s) \in Whitespace
         THEN <<" ">> \o collapse_whitespace(chars_lstrip(s))
         ELSE <<Head(s)>> \o collapse_whitespace(Tail(s))

\* Python's None and a value that is not None
None == [some |-> FALSE]
Some(v) == [some |-> TRUE, value |-> v]

(***************************************************************************)
(* The document source and the two PDF libraries                           *)
(*                                                                         *)
(* What requests.get does is the environment's choice: it raises, or it    *)
(* answers with a status code and a body.  A body is described by what     *)
(* each library does with it: it raises, or it yields the page texts.      *)
(***************************************************************************)

Raises == [raises |-> TRUE]
Pages(texts) == [raises |-> FALSE, pages |-> texts]

Document(primary, secondary) == [fitz |-> primary, pypdf |-> secondary]

RequestRaises == [kind |-> "raise"]
Response(status, body) ==
    [kind |-> "response", status_code |-> status, content |-> body]

\* response.raise_for_status(): HTTPError for a 4xx or 5xx status
raise_for_status(resp) ==
    resp.status_code >= 400 /\ resp.status_code < 600

\* f"\n--- Page {page_num + 1} ---\n{text}", page_num counted from 0
PageBlock(page_num, text) ==
    Cat(Cat(Cat(Str(<<"\n","-","-","-"," ","P","a","g","e"," ">>),
                str(page_num + 1)),
            Str(<<" ","-","-","-","\n">>)),
        text)

\* the loop of lines 63-68 over the first k pages
RECURSIVE FitzText(_, _)
FitzText(pages, k) ==
    IF k = 0 THEN <<>>
    ELSE Cat(FitzText(pages, k - 1), PageBlock(k - 1, pages[k]))

\* the loop of lines 85-88 over the first k pages
RECURSIVE PyPDF2Text(_, _)
PyPDF2Text(pages, k) ==
    IF k = 0 THEN <<>>
    ELSE Cat(PyPDF2Text(pages, k - 1), Cat(pages[k], Str(<<"\n">>)))

\* the quality gate of lines 72 and 90
MinTextLength == 100

\* the gate without strip(): surrounding whitespace counts as text
TooShort_unstripped(full_text) == len(full_text) < MinTextLength

TooShort(full_text) == len(strip(full_text)) < MinTextLength

\* lines 40-44 without the suffix of line 42
pdf_link_without_suffix(paper_link) ==
    IF Contains(paper_link, <<"a","r","x","i","v",".","o","r","g","/","a","b","s","/">>)
    THEN Replace(paper_link, <<"/","a","b","s","/">>, <<"/","p","d","f","/">>)
    ELSE paper_link

\* lines 40-44: the link the PDF is requested from
pdf_link(paper_link) ==
    IF Contains(paper_link, <<"a","r","x","i","v",".","o","r","g","/","a","b","s","/">>)
    THEN Replace(paper_link, <<"/","a","b","s","/">>, <<"/","p","d","f","/">>)
             \o <<".","p","d","f">>
    ELSE paper_link

\* lines 82-99: the PyPDF2 fallback, entered from the except clause of line 79
Pypdf2Fallback(content) ==
    IF content.pypdf.raises
    THEN [full_text |-> None, exit |-> 99]
    ELSE LET full_text == PyPDF2Text(content.pypdf.pages, Len(content.pypdf.pages))
         IN  IF TooShort(full_text)
             THEN [full_text |-> None, exit |-> 92]
             ELSE [full_text |-> Some(full_text), exit |-> 95]

\* lines 60-99 with the fallback entered also after a PyMuPDF text below
\* the gate
ExtractText_fallback_after_short(content) ==
    IF content.fitz.raises
    THEN Pypdf2Fallback(content) @@ [attempts |-> <<"get", "fitz", "pypdf">>]
    ELSE LET full_text == FitzText(content.fitz.pages, Len(content.fitz.pages))
         IN  IF TooShort(full_text)
             THEN Pypdf2Fallback(content)
                      @@ [attempts |-> <<"get", "fitz", "pypdf">>]
             ELSE [full_text |-> Some(full_text), exit |-> 77,
                   attempts |-> <<"get", "fitz">>]

\* lines 60-99: PyMuPDF first; its exception, and only its exception,
\* leads to the fallback
ExtractText(content) ==
    IF content.fitz.raises
    THEN Pypdf2Fallback(content) @@ [attempts |-> <<"get", "fitz", "pypdf">>]
    ELSE LET full_text == FitzText(content.fitz.pages, Len(content.fitz.pages))
         IN  IF TooShort(full_text)
             THEN [full_text |-> None, exit |-> 74,
                   attempts |-> <<"get", "fitz">>]
             ELSE [full_text |-> Some(full_text), exit |-> 77,
                   attempts |-> <<"get", "fitz">>]

\* download_paper_pdf(paper_link, paper_id) when requests.get does `net`.
\* full_text is the value returned; exit is the line of the return statement
\* taken and attempts the calls made (request, PyMuPDF, PyPDF2), in order.
download_paper_pdf(paper_link, net) ==
    IF net.kind = "raise"
    THEN [full_text |-> None, exit |-> 103, attempts |-> <<"get">>]
    ELSE IF raise_for_status(net)
    THEN [full_text |-> None, exit |-> 103, attempts |-> <<"get">>]
    ELSE IF net.status_code # 200
    THEN [full_text |-> None, exit |-> 58, attempts |-> <<"get">>]
    ELSE ExtractText(net.content)

\* the call as the handler makes it, with the link requested kept beside
\* the result
CallDownloadPaperPdf(paper_link, net) ==
    download_paper_pdf(paper_link, net)
        @@ [paper_link |-> paper_link,
            requested |-> pdf_link(paper_link),
            net |-> net]


(***************************************************************************)
(* Request bodies (request.get_json()) and Python dicts                    *)
(***************************************************************************)

\* {}
EmptyDict == [k \in {} |-> None]

\* d.get(key)
DictGet(d, key) == IF key \in DOMAIN d THEN Some(d[key]) ELSE None

\* d.get(key, default)
DictGetOr(d, key, default) == IF key \in DOMAIN d THEN d[key] ELSE default

\* d[key] = value
DictSet(d, key, value) ==
    [k \in DOMAIN d \cup {key} |-> IF k = key THEN value ELSE d[k]]

(***************************************************************************)
(* Inputs                                                                  *)
(***************************************************************************)

\* requests served at the same time
MaxRequests == 2

Requests == 1..MaxRequests

PaperIds == {"p1", "p2"}

ArxivLink ==
    <<"h","t","t","p","s",":","/","/","a","r","x","i","v",".","o","r","g",
      "/","a","b","s","/","1","7","0","6",".","0","3","7","6","2">>

DirectLink ==
    <<"h","t","t","p","s",":","/","/","e","x","a","m","p","l","e",".","o","r","g",
      "/","p","a","p","e","r",".","p","d","f">>

\* an abstract page of another site: '/abs/' without 'arxiv.org/abs/'
JournalLink ==
    <<"h","t","t","p","s",":","/","/","j","o","u","r","n","a","l",".","o","r","g",
      "/","a","b","s","/","4","2">>

\* an arXiv abstract page with '/abs/' twice
ArchiveLink ==
    <<"h","t","t","p",":","/","/","a","r","x","i","v",".","o","r","g",
      "/","a","b","s","/","c","s","/","a","b","s","/","9","9","0","1">>

\* an arXiv PDF
ArxivPdfLink ==
    <<"h","t","t","p","s",":","/","/","a","r","x","i","v",".","o","r","g",
      "/","p","d","f","/","1","7","0","6",".","0","3","7","6","2",".","p","d","f">>

Links == {ArxivLink, DirectLink, JournalLink, ArchiveLink, ArxivPdfLink}

\* bodies of POST /download-paper/<paper_id>; None is a body get_json()
\* yields no dict for
DownloadBodies ==
    { None,
      Some(EmptyDict),
      Some([link |-> <<>>]),
      Some([link |-> ArxivLink]),
      Some([link |-> DirectLink]) }

Question == <<"w","h","y","?">>

\* bodies of POST /ask-paper/<paper_id>
AskBodies ==
    { None,
      Some(EmptyDict),
      Some([question |-> <<>>]),
      Some([question |-> Question]),
      Some([question |-> Question, paper_info |-> [title |-> <<"T">>]]) }

\* what PyMuPDF adds around the text of a one-page document
PageOverhead == len(PageBlock(0, <<>>))

\* a document PyMuPDF reads as one page, the extracted text n characters long
OnePage(c, n) == Document(Pages(<<Rep(c, n - PageOverhead)>>), Raises)

\* a document only PyPDF2 reads, as one page of n characters
FallbackPage(c, n) == Document(Raises, Pages(<<Rep(c, n)>>))

DocBroken == Document(Raises, Raises)
DocNoPages == Document(Pages(<<>>), Raises)
\* a scan: PyMuPDF finds a page without text, PyPDF2 would find text
DocScan == Document(Pages(<< <<>> >>), Pages(<<Rep("s", MinTextLength)>>))
\* long enough as extracted, but blank
DocBlank == Document(Pages(<<Rep(" ", 3 * MinTextLength)>>), Raises)
\* PyMuPDF text of 99 and of 100 characters once stripped
DocGateBelow == OnePage("x", MinTextLength)
DocGateAt == OnePage("x", MinTextLength + 1)
\* PyPDF2 text of 99 and of 100 characters once stripped
DocFallbackBelow == FallbackPage("y", MinTextLength - 1)
DocFallbackAt == FallbackPage("y", MinTextLength)

\* a document PyMuPDF reads as two pages, the extracted text n characters
\* long, the first page the first half of it
TwoPages(n) ==
    Document(Pages(<<Rep("a", (n \div 2) - PageOverhead),
                     Rep("b", (n - (n \div 2)) - PageOverhead)>>),
             Raises)

\* the status codes the document source answers with
StatusCodes == {200, 204, 404}

NetOutcomes(documents) ==
    {RequestRaises}
        \cup {Response(status, DocBroken) : status \in StatusCodes \ {200}}
        \cup {Response(200, d) : d \in documents}

(***************************************************************************)
(* State                                                                   *)
(***************************************************************************)

VARIABLES
    paper_content_cache,  \* line 23: paper id -> extracted text
    pc,                   \* where each request is in download_paper
    frame,                \* the locals of each request in download_paper, and
                          \* whether the paper was cached when it started
    response,             \* the response sent last
    downloaded            \* history: ids a download request succeeded for

vars == <<paper_content_cache, pc, frame, response, downloaded>>

NoFrame == [paper_id |-> "", paper_link |-> <<>>, cached_at_start |-> FALSE]
NoResponse == [handler |-> "none"]

Init ==
    /\ paper_content_cache = EmptyDict
    /\ pc = [r \in Requests |-> "idle"]
    /\ frame = [r \in Requests |-> NoFrame]
    /\ response = NoResponse
    /\ downloaded = {}

\* jsonify(body), status.  Beside what the client receives (status, json) a
\* response records, for the properties, the request it answers: the handler
\* and paper id, and where a handler adds them the request body (data), the
\* search made (query, max_results, net), the call of download_paper_pdf
\* (call) and cached_at_start.
Reply(handler, paper_id, status, body) ==
    [handler |-> handler, paper_id |-> paper_id, status |-> status, json |-> body]

(***************************************************************************)
(* POST /download-paper/<paper_id>                                         *)
(***************************************************************************)

\* line 259 without the test: every request goes on to download
already_cached_untested(paper_id) == FALSE

\* line 259: `paper_id in paper_content_cache`
already_cached(paper_id) == paper_id \in DOMAIN paper_content_cache

\* lines 246-259: up to the test `paper_id in paper_content_cache`.  The
\* frame remembers in cached_at_start whether the paper was in the cache
\* when the request started; the code keeps no such field, it is recorded
\* for the properties.
download_paper_begin(r, paper_id, data) ==
    /\ pc[r] = "idle"
    /\ UNCHANGED <<paper_content_cache, downloaded>>
    /\ IF ~data.some
       THEN \* data.get on None: caught at line 289
            /\ response' = Reply("download_paper", paper_id, 500,
                                 [success |-> FALSE, error |-> "AttributeError"])
            /\ UNCHANGED <<pc, frame>>
       ELSE LET paper_link == DictGet(data.value, "link")
            IN  IF ~paper_link.some \/ paper_link.value = <<>>
                THEN /\ response' = Reply("download_paper", paper_id, 400,
                                          [success |-> FALSE,
                                           error |-> "Paper link is required"])
                     /\ UNCHANGED <<pc, frame>>
                ELSE /\ pc' = [pc EXCEPT ![r] =
                                 IF already_cached(paper_id)
                                 THEN "cached" ELSE "download"]
                     /\ frame' = [frame EXCEPT ![r] =
                                 [paper_id |-> paper_id,
                                  paper_link |-> paper_link.value,
                                  cached_at_start |->
                                      paper_id \in DOMAIN paper_content_cache]]
                     /\ UNCHANGED response

\* lines 260-266: the answer for a paper found in the cache
download_paper_cached(r) ==
    /\ pc[r] = "cached"
    /\ response' = Reply("download_paper", frame[r].paper_id, 200,
                         [success |-> TRUE,
                          message |-> "Paper already downloaded",
                          has_full_text |-> TRUE,
                          text_length |->
                              len(paper_content_cache[frame[r].paper_id])])
                       @@ [cached_at_start |-> frame[r].cached_at_start]
    /\ downloaded' = downloaded \cup {frame[r].paper_id}
    /\ pc' = [pc EXCEPT ![r] = "idle"]
    /\ frame' = [frame EXCEPT ![r] = NoFrame]
    /\ UNCHANGED paper_content_cache

\* lines 268-287 with the insert of line 279 made for a failed call as well,
\* of an empty text
download_paper_fetch_caching_failures(r, net) ==
    /\ pc[r] = "download"
    /\ LET paper_id == frame[r].paper_id
           call == CallDownloadPaperPdf(frame[r].paper_link, net)
           full_text == call.full_text
       IN  IF ~full_text.some
           THEN /\ response' =
                       Reply("download_paper", paper_id, 400,
                             [success |-> FALSE,
                              error |-> "Failed to download or extract text from PDF",
                              message |-> "The paper might be a scanned document, behind a paywall, or in an unsupported format."])
                           @@ [call |-> call,
                               cached_at_start |-> frame[r].cached_at_start]
                /\ paper_content_cache' =
                       DictSet(paper_content_cache, paper_id, Str(<<>>))
                /\ UNCHANGED downloaded
           ELSE /\ paper_content_cache' =
                       DictSet(paper_content_cache, paper_id, full_text.value)
                /\ downloaded' = downloaded \cup {paper_id}
                /\ response' =
                       Reply("download_paper", paper_id, 200,
                             [success |-> TRUE,
                              message |-> "Paper downloaded and processed successfully",
                              has_full_text |-> TRUE,
                              text_length |-> len(full_text.value)])
                           @@ [call |-> call,
                               cached_at_start |-> frame[r].cached_at_start]
    /\ pc' = [pc EXCEPT ![r] = "idle"]
    /\ frame' = [frame EXCEPT ![r] = NoFrame]

\* lines 268-287: download, extract, and cache what was extracted
download_paper_fetch(r, net) ==
    /\ pc[r] = "download"
    /\ LET paper_id == frame[r].paper_id
           call == CallDownloadPaperPdf(frame[r].paper_link, net)
           full_text == call.full_text
       IN  IF ~full_text.some
           THEN /\ response' =
                       Reply("download_paper", paper_id, 400,
                             [success |-> FALSE,
                              error |-> "Failed to download or extract text from PDF",
                              message |-> "The paper might be a scanned document, behind a paywall, or in an unsupported format."])
                           @@ [call |-> call,
                               cached_at_start |-> frame[r].cached_at_start]
                /\ UNCHANGED <<paper_content_cache, downloaded>>
           ELSE /\ paper_content_cache' =
                       DictSet(paper_content_cache, paper_id, full_text.value)
                /\ downloaded' = downloaded \cup {paper_id}
                /\ response' =
                       Reply("download_paper", paper_id, 200,
                             [success |-> TRUE,
                              message |-> "Paper downloaded and processed successfully",
                              has_full_text |-> TRUE,
                              text_length |-> len(full_text.value)])
                           @@ [call |-> call,
                               cached_at_start |-> frame[r].cached_at_start]
    /\ pc' = [pc EXCEPT ![r] = "idle"]
    /\ frame' = [frame EXCEPT ![r] = NoFrame]


(***************************************************************************)
(* GET /paper-content/<paper_id>                                           *)
(***************************************************************************)

\* line 309: the length a preview is cut to
PreviewLength == 1000

\* line 309 with >= for >: a text of exactly 1000 characters is cut
Preview_cut_at_limit(content) ==
    IF len(content) >= PreviewLength
    THEN Cat(SliceTo(content, PreviewLength), Str(<<".", ".", ".">>))
    ELSE content

\* line 309
Preview(content) ==
    IF len(content) > PreviewLength
    THEN Cat(SliceTo(content, PreviewLength), Str(<<".", ".", ".">>))
    ELSE content

\* lines 299-317 without the test of line 300: the lookup of line 306 raises
\* KeyError for a paper that is not cached, answered 500 at lines 319-324
get_paper_content_unguarded(paper_id) ==
    /\ response' =
           IF paper_id \notin DOMAIN paper_content_cache
           THEN Reply("get_paper_content", paper_id, 500,
                      [success |-> FALSE, error |-> "KeyError"])
           ELSE LET content == paper_content_cache[paper_id]
                IN  Reply("get_paper_content", paper_id, 200,
                          [success |-> TRUE,
                           has_content |-> TRUE,
                           preview |-> Preview(content),
                           full_length |-> len(content),
                           message |-> <<"Full text available", len(content)>>])
    /\ UNCHANGED <<paper_content_cache, pc, frame, downloaded>>

\* lines 299-317
get_paper_content(paper_id) ==
    /\ response' =
           IF paper_id \notin DOMAIN paper_content_cache
           THEN Reply("get_paper_content", paper_id, 404,
                      [success |-> FALSE,
                       error |-> "Paper not found in cache. Please download it first."])
           ELSE LET content == paper_content_cache[paper_id]
                IN  Reply("get_paper_content", paper_id, 200,
                          [success |-> TRUE,
                           has_content |-> TRUE,
                           preview |-> Preview(content),
                           full_length |-> len(content),
                           message |-> <<"Full text available", len(content)>>])
    /\ UNCHANGED <<paper_content_cache, pc, frame, downloaded>>

(***************************************************************************)
(* POST /ask-paper/<paper_id>                                              *)
(***************************************************************************)

\* line 351
max_content_length == 15000

\* line 354: "\n\n[... content truncated ...]\n\n"
TruncationMarker ==
    Str(<<"\n","\n","[",".",".","."," ","c","o","n","t","e","n","t"," ",
          "t","r","u","n","c","a","t","e","d"," ",".",".",".","]","\n","\n">>)

\* lines 352-356 with >= for >: a text of exactly 15000 characters is cut
Truncate_at_limit(full_content) ==
    IF len(full_content) >= max_content_length
    THEN Cat(Cat(SliceTo(full_content, max_content_length \div 2),
                 TruncationMarker),
             SliceFrom(full_content, (-max_content_length) \div 2))
    ELSE full_content

\* lines 352-356
Truncate(full_content) ==
    IF len(full_content) > max_content_length
    THEN Cat(Cat(SliceTo(full_content, max_content_length \div 2),
                 TruncationMarker),
             SliceFrom(full_content, (-max_content_length) \div 2))
    ELSE full_content

\* lines 329-365
ask_paper_question(paper_id, data) ==
    /\ response' =
         [data |-> data] @@
           IF ~data.some
           THEN \* data.get on None: caught at line 367
                Reply("ask_paper_question", paper_id, 500,
                      [success |-> FALSE, error |-> "AttributeError"])
           ELSE LET question == DictGetOr(data.value, "question", <<>>)
                    paper_info == DictGetOr(data.value, "paper_info", EmptyDict)
                IN  IF question = <<>>
                    THEN Reply("ask_paper_question", paper_id, 400,
                               [success |-> FALSE,
                                error |-> "Question is required"])
                    ELSE IF paper_id \notin DOMAIN paper_content_cache
                    THEN Reply("ask_paper_question", paper_id, 404,
                               [success |-> FALSE,
                                error |-> "Paper content not available. Please download the paper first.",
                                needs_download |-> TRUE])
                    ELSE LET full_content == paper_content_cache[paper_id]
                         IN  Reply("ask_paper_question", paper_id, 200,
                                   [success |-> TRUE,
                                    paper_content |-> Truncate(full_content),
                                    content_length |-> len(full_content),
                                    is_truncated |->
                                        len(full_content) > max_content_length,
                                    paper_info |-> paper_info,
                                    question |-> question])
    /\ UNCHANGED <<paper_content_cache, pc, frame, downloaded>>

(***************************************************************************)
(* GET /cache-status and GET /                                             *)
(***************************************************************************)

\* line 390: the length the previews of /cache-status are cut to
StatusPreviewLength == 200

\* lines 388-391
CacheInfo(content) ==
    [length |-> len(content),
     preview |-> IF len(content) > StatusPreviewLength
                 THEN Cat(SliceTo(content, StatusPreviewLength),
                          Str(<<".", ".", ".">>))
                 ELSE content]

\* lines 384-396
cache_status ==
    /\ response' =
           Reply("cache_status", "", 200,
                 [cached_papers |-> Cardinality(DOMAIN paper_content_cache),
                  papers |-> [paper_id \in DOMAIN paper_content_cache |->
                                  CacheInfo(paper_content_cache[paper_id])]])
    /\ UNCHANGED <<paper_content_cache, pc, frame, downloaded>>

\* lines 399-415
health_check ==
    /\ response' =
           Reply("health_check", "", 200,
                 [status |-> "healthy",
                  version |-> "4.0",
                  cached_papers |-> Cardinality(DOMAIN paper_content_cache)])
    /\ UNCHANGED <<paper_content_cache, pc, frame, downloaded>>

(***************************************************************************)
(* The metadata source and the fallback catalog                            *)
(***************************************************************************)

\* lines 26-35.  The first entry is the one the source file lists; line 34
\* elides the others, and two short entries stand for them.
MOCK_PAPERS ==
  <<
    [ title |->
        <<"A","t","t","e","n","t","i","o","n"," ","I","s"," ","A","l","l"," ",
        "Y","o","u"," ","N","e","e","d">>,
      authors |->
        <<<<"A","s","h","i","s","h"," ","V","a","s","w","a","n","i">>,
          <<"N","o","a","m"," ","S","h","a","z","e","e","r">>,
          <<"N","i","k","i"," ","P","a","r","m","a","r">>>>,
      summary |->
        <<"T","h","e"," ","d","o","m","i","n","a","n","t"," ","s","e","q","u",
        "e","n","c","e"," ","t","r","a","n","s","d","u","c","t","i","o","n",
        " ","m","o","d","e","l","s"," ","a","r","e"," ","b","a","s","e","d",
        " ","o","n"," ","c","o","m","p","l","e","x"," ","r","e","c","u","r",
        "r","e","n","t"," ","o","r"," ","c","o","n","v","o","l","u","t","i",
        "o","n","a","l"," ","n","e","u","r","a","l"," ","n","e","t","w","o",
        "r","k","s"," ","t","h","a","t"," ","i","n","c","l","u","d","e"," ",
        "a","n"," ","e","n","c","o","d","e","r"," ","a","n","d"," ","a"," ",
        "d","e","c","o","d","e","r","."," ","T","h","e"," ","b","e","s","t",
        " ","p","e","r","f","o","r","m","i","n","g"," ","m","o","d","e","l",
        "s"," ","a","l","s","o"," ","c","o","n","n","e","c","t"," ","t","h",
        "e"," ","e","n","c","o","d","e","r"," ","a","n","d"," ","d","e","c",
        "o","d","e","r"," ","t","h","r","o","u","g","h"," ","a","n"," ","a",
        "t","t","e","n","t","i","o","n"," ","m","e","c","h","a","n","i","s",
        "m","."," ","W","e"," ","p","r","o","p","o","s","e"," ","a"," ","n",
        "e","w"," ","s","i","m","p","l","e"," ","n","e","t","w","o","r","k",
        " ","a","r","c","h","i","t","e","c","t","u","r","e",","," ","t","h",
        "e"," ","T","r","a","n","s","f","o","r","m","e","r",","," ","b","a",
        "s","e","d"," ","s","o","l","e","l","y"," ","o","n"," ","a","t","t",
        "e","n","t","i","o","n"," ","m","e","c","h","a","n","i","s","m","s",
        ","," ","d","i","s","p","e","n","s","i","n","g"," ","w","i","t","h",
        " ","r","e","c","u","r","r","e","n","c","e"," ","a","n","d"," ","c",
        "o","n","v","o","l","u","t","i","o","n","s"," ","e","n","t","i","r",
        "e","l","y",".">>,
      link |->
        <<"h","t","t","p","s",":","/","/","a","r","x","i","v",".","o","r","g",
        "/","a","b","s","/","1","7","0","6",".","0","3","7","6","2">>,
      published |->
        <<"2","0","1","7","-","0","6","-","1","2","T","1","7",":","1","8",":",
        "5","2","Z">> ],
    [ title |->
        <<"D","e","e","p"," ","R","e","s","i","d","u","a","l"," ","L","e","a",
        "r","n","i","n","g">>,
      authors |->
        <<<<"K","a","i","m","i","n","g"," ","H","e">>>>,
      summary |->
        <<"D","e","e","p","e","r"," ","n","e","u","r","a","l"," ","n","e","t",
        "w","o","r","k","s"," ","a","r","e"," ","m","o","r","e"," ","d","i",
        "f","f","i","c","u","l","t"," ","t","o"," ","t","r","a","i","n",".">>,
      link |->
        <<"h","t","t","p","s",":","/","/","a","r","x","i","v",".","o","r","g",
        "/","a","b","s","/","1","5","1","2",".","0","3","3","8","5">>,
      published |->
        <<"2","0","1","5","-","1","2","-","1","0","T","1","9",":","5","1",":",
        "5","5","Z">> ],
    [ title |->
        <<"B","E","R","T">>,
      authors |->
        <<<<"J","a","c","o","b"," ","D","e","v","l","i","n">>>>,
      summary |->
        <<"W","e"," ","i","n","t","r","o","d","u","c","e"," ","a"," ","n","e",
        "w"," ","l","a","n","g","u","a","g","e"," ","r","e","p","r","e","s",
        "e","n","t","a","t","i","o","n"," ","m","o","d","e","l"," ","b","a",
        "s","e","d"," ","o","n"," ","t","h","e"," ","T","r","a","n","s","f",
        "o","r","m","e","r",".">>,
      link |->
        <<"h","t","t","p","s",":","/","/","a","r","x","i","v",".","o","r","g",
        "/","a","b","s","/","1","8","1","0",".","0","4","8","0","5">>,
      published |->
        <<"2","0","1","8","-","1","0","-","1","1","T","0","0",":","5","0",":",
        "0","1","Z">> ]
  >>

\* range(n) as the indices of a sequence
Indices(seq) == 1..Len(seq)

\* line 187: paper_text, for each entry of the catalog
MockPaperText ==
    SubSeq([i \in Indices(MOCK_PAPERS) |->
               chars_lower(MOCK_PAPERS[i].title \o <<" ">>
                               \o MOCK_PAPERS[i].summary)],
           1, Len(MOCK_PAPERS))

\* line 188: any(word in paper_text for word in query_words), for entry i
IsRelevant(i, query_words) ==
    \E w \in Indices(query_words) : Contains(MockPaperText[i], query_words[w])

\* lines 189-191 with the entries counted from 1 in the id
MockCopy_counted_from_one(i) ==
    MOCK_PAPERS[i + 1]
        @@ [id |-> <<"m","o","c","k","_">> \o Decimal(i + 1),
            has_full_text |-> FALSE]

\* lines 189-191 and 197-199: the copy of catalog entry i (counted from 0)
MockCopy(i) ==
    MOCK_PAPERS[i + 1]
        @@ [id |-> <<"m","o","c","k","_">> \o Decimal(i),
            has_full_text |-> FALSE]

\* lines 186-192: the relevant entries among the first k
RECURSIVE RelevantPapers(_, _)
RelevantPapers(query_words, k) ==
    IF k = 0 THEN <<>>
    ELSE RelevantPapers(query_words, k - 1)
             \o IF IsRelevant(k, query_words)
                THEN <<MockCopy(k - 1)>>
                ELSE <<>>

\* seq[:n] of a list; a negative n counts from the end
ListTo(seq, n) ==
    SubSeq(seq, 1, IF n < 0 THEN Max(Len(seq) + n, 0) ELSE Min(n, Len(seq)))

\* lines 178-206
get_mock_papers_for_query(query, max_results) ==
    LET query_words == chars_split(chars_lower(query))
        found == RelevantPapers(query_words, Len(MOCK_PAPERS))
        relevant_papers ==
            IF found = <<>>
            THEN [i \in Indices(ListTo(MOCK_PAPERS, max_results)) |->
                     MockCopy(i - 1)]
            ELSE found
        tagged ==
            [i \in Indices(relevant_papers) |->
                [category |-> query] @@ relevant_papers[i]]
    IN  ListTo(tagged, max_results)

\* A feed entry, as the five things lines 142-151 read from it.  A field is
\* None when entry.find() finds no element or the element has no text:
\* .text.strip() raises on both.  An author has no name element, a name
\* element without text, or a name.
NoNameElement == [kind |-> "no_name"]
NameWithoutText == [kind |-> "no_text"]
Name(text) == [kind |-> "text", text |-> text]

\* lines 147-151: the names of the authors read so far; None once
\* name.text.strip() has raised
RECURSIVE AuthorNames(_, _)
AuthorNames(authors, k) ==
    IF k = 0 THEN Some(<<>>)
    ELSE LET before == AuthorNames(authors, k - 1)
         IN  IF ~before.some THEN None
             ELSE IF authors[k].kind = "no_name" THEN before
             ELSE IF authors[k].kind = "no_text" THEN None
             ELSE Some(Append(before.value, chars_strip(authors[k].text)))

\* hash(link): some integer, equal for equal strings; here one under which
\* different links of the same length collide
hash(link) == Len(link)

\* line 154 with the link alone: f"{hash(link)}"
entry_id_without_position(link, n) == Decimal(hash(link))

\* line 154: f"{hash(link)}_{len(papers)}"
entry_id(link, n) == Decimal(hash(link)) \o <<"_">> \o Decimal(n)

\* line 159 without the placeholder: the authors as read
authors_or_unknown_as_read(authors) == authors

\* line 159: authors if authors else ['Unknown Author']
authors_or_unknown(authors) ==
    IF authors # <<>>
    THEN authors
    ELSE << <<"U","n","k","n","o","w","n"," ","A","u","t","h","o","r">> >>

\* lines 142-164: the record of an entry that parses, None for one the
\* except clause of line 166 skips; n is len(papers)
ParseEntry(entry, n) ==
    IF \/ ~entry.title.some
       \/ ~entry.summary.some
       \/ ~entry.published.some
       \/ ~entry.id.some
    THEN None
    ELSE LET title == chars_strip(entry.title.value)
             summary == chars_strip(entry.summary.value)
             published == chars_strip(entry.published.value)
             link == chars_strip(entry.id.value)
             authors == AuthorNames(entry.authors, Len(entry.authors))
         IN  IF ~authors.some THEN None
             ELSE Some([id |-> entry_id(link, n),
                        title |-> title,
                        authors |-> authors_or_unknown(authors.value),
                        summary |-> collapse_whitespace(summary),
                        link |-> link,
                        published |-> published,
                        has_full_text |-> FALSE])

\* lines 139-168: papers after the first k entries
RECURSIVE ParseEntries(_, _)
ParseEntries(entries, k) ==
    IF k = 0 THEN <<>>
    ELSE LET papers == ParseEntries(entries, k - 1)
             paper == ParseEntry(entries[k], Len(papers))
         IN  IF paper.some THEN Append(papers, paper.value) ELSE papers

\* What requests.get does at line 121: it raises, or it answers with a
\* status code and a body; the body is a feed ET.fromstring parses, with its
\* entries, or one it raises on.
NotXml == [parses |-> FALSE]
Feed(entries) == [parses |-> TRUE, entries |-> entries]

\* lines 105-176 without the test of line 124: the body of an answer with
\* another status than 200 is parsed like any other
fetch_arxiv_papers_simple_any_status(query, max_results, net) ==
    IF net.kind = "raise"
    THEN get_mock_papers_for_query(query, max_results)
    ELSE IF ~net.content.parses
    THEN get_mock_papers_for_query(query, max_results)
    ELSE IF Len(net.content.entries) = 0
    THEN get_mock_papers_for_query(query, max_results)
    ELSE ParseEntries(net.content.entries, Len(net.content.entries))

\* lines 105-176
fetch_arxiv_papers_simple(query, max_results, net) ==
    IF net.kind = "raise"
    THEN get_mock_papers_for_query(query, max_results)
    ELSE IF net.status_code # 200
    THEN get_mock_papers_for_query(query, max_results)
    ELSE IF ~net.content.parses
    THEN get_mock_papers_for_query(query, max_results)
    ELSE IF Len(net.content.entries) = 0
    THEN get_mock_papers_for_query(query, max_results)
    ELSE ParseEntries(net.content.entries, Len(net.content.entries))

(***************************************************************************)
(* GET/POST /search and GET /papers                                        *)
(***************************************************************************)

\* lines 215 and 218, and line 378: max_results when the request names none
DefaultMaxResults == 6

\* lines 211-233.  query and max_results are None when the request does not
\* give them.  The timestamp of the response is left out.
search(query, max_results, net) ==
    /\ LET q == IF query.some THEN query.value
                ELSE <<"m","a","c","h","i","n","e"," ",
                       "l","e","a","r","n","i","n","g">>
           n == IF max_results.some THEN max_results.value
                ELSE DefaultMaxResults
           papers == fetch_arxiv_papers_simple(q, n, net)
       IN  response' =
               Reply("search", "", 200,
                     [success |-> TRUE,
                      query |-> q,
                      count |-> Len(papers),
                      papers |-> papers])
                   @@ [query |-> q, max_results |-> n, net |-> net]
    /\ UNCHANGED <<paper_content_cache, pc, frame, downloaded>>

\* lines 375-381
get_papers(query, max_results, net) ==
    /\ LET q == IF query.some THEN query.value
                ELSE <<"c","o","m","p","u","t","e","r"," ",
                       "s","c","i","e","n","c","e">>
           n == IF max_results.some THEN max_results.value
                ELSE DefaultMaxResults
       IN  response' =
               Reply("get_papers", "", 200, fetch_arxiv_papers_simple(q, n, net))
                   @@ [query |-> q, max_results |-> n, net |-> net]
    /\ UNCHANGED <<paper_content_cache, pc, frame, downloaded>>

\* Queries
QueryAttention == <<"a","t","t","e","n","t","i","o","n">>
QueryNeuralNetworks ==
    <<"N","e","u","r","a","l"," "," ","N","e","t","w","o","r","k","s">>
QueryQuantum == <<"q","u","a","n","t","u","m">>
QueryBlank == <<" "," ">>

Queries ==
    { None, Some(<<>>), Some(QueryBlank), Some(QueryAttention),
      Some(QueryNeuralNetworks), Some(QueryQuantum) }

\* the largest max_results asked for
MaxResults == 2

Limits == {None} \cup {Some(n) : n \in 1..MaxResults}

\* Feed entries
Published == <<"2","0","2","4","-","0","1","-","0","1","T","0","0",":","0","0",":",
      "0","0","Z">>
LinkOne == <<"h","t","t","p",":","/","/","a","r","x","i","v",".","o","r","g","/",
      "a","b","s","/","2","4","0","1",".","0","0","0","0","1","v","1">>
LinkTwo == <<"h","t","t","p",":","/","/","a","r","x","i","v",".","o","r","g","/",
      "a","b","s","/","2","4","0","1",".","0","0","0","0","2","v","1">>

Entry(title, summary, id, authors) ==
    [title |-> title, summary |-> summary, published |-> Some(Published),
     id |-> id, authors |-> authors]

\* two authors, and whitespace to strip and to collapse
EntrySparse ==
    Entry(Some(<<" ","S","p","a","r","s","e"," "," ","A","t","t","e","n","t","i","o",
                 "n","\n">>),
          Some(<<"W","e"," ","s","t","u","d","y","\n"," "," "," ","s","p","a","r","s",
                 "e"," ","\t"," ","a","t","t","e","n","t","i","o","n","."," ">>),
          Some(LinkOne),
          <<Name(<<" ","A","n","n"," ","L","e","e"," ">>),
            Name(<<"B","o","b"," ","R","o","y">>)>>)

\* no author element
EntrySurvey ==
    Entry(Some(<<"S","u","r","v","e","y">>),
          Some(<<"A"," ","s","u","r","v","e","y",".">>),
          Some(LinkTwo),
          <<>>)

\* the link of EntrySparse again, and an author without a name element
EntryRepeat ==
    Entry(Some(<<"S","u","r","v","e","y">>),
          Some(<<"A"," ","s","u","r","v","e","y",".">>),
          Some(LinkOne),
          <<NoNameElement>>)

\* no title
EntryUntitled ==
    Entry(None, Some(<<"A"," ","s","u","r","v","e","y",".">>), Some(LinkTwo), <<>>)

\* an author whose name element has no text
EntryNameless ==
    Entry(Some(<<"S","u","r","v","e","y">>),
          Some(<<"A"," ","s","u","r","v","e","y",".">>),
          Some(LinkTwo),
          <<Name(<<"B","o","b"," ","R","o","y">>), NameWithoutText>>)

FeedEntries ==
    {EntrySparse, EntrySurvey, EntryRepeat, EntryUntitled, EntryNameless}

\* the most entries in a feed
MaxEntries == 2

Feeds == UNION {[1..k -> FeedEntries] : k \in 0..MaxEntries}

\* the status codes the metadata source answers with
FeedStatusCodes == {200, 503}

FeedOutcomes(feeds) ==
    {RequestRaises}
        \cup {Response(status, NotXml) : status \in FeedStatusCodes}
        \cup {Response(status, Feed(f)) : status \in FeedStatusCodes, f \in feeds}

(***************************************************************************)
(* The server                                                              *)
(***************************************************************************)

\* The requests made: `requests` are the download requests in progress at
\* the same time, and `inputs` what the clients send and the two sources
\* answer.
Serve(requests, inputs) ==
    \/ \E r \in requests, paper_id \in PaperIds, data \in inputs.download_bodies :
           download_paper_begin(r, paper_id, data)
    \/ \E r \in requests : download_paper_cached(r)
    \/ \E r \in requests, net \in NetOutcomes(inputs.documents) :
           download_paper_fetch(r, net)
    \/ \E paper_id \in PaperIds : get_paper_content(paper_id)
    \/ \E paper_id \in PaperIds, data \in inputs.ask_bodies :
           ask_paper_question(paper_id, data)
    \/ cache_status
    \/ health_check
    \/ \E s \in inputs.searches : search(s.query, s.max_results, s.net)
    \/ \E s \in inputs.searches : get_papers(s.query, s.max_results, s.net)

Searches(queries, limits, outcomes) ==
    [query : queries, max_results : limits, net : outcomes]

\* the documents two racing downloads can be answered with
RaceDocuments == {DocGateAt, DocFallbackAt, DocScan}

\* few inputs, for requests served at the same time
RaceInputs ==
    [download_bodies |-> {Some([link |-> <<>>]), Some([link |-> ArxivLink])},
     documents |-> RaceDocuments,
     ask_bodies |-> {Some(EmptyDict), Some([question |-> Question])},
     searches |-> Searches({Some(QueryAttention)}, {Some(1)},
                           {RequestRaises,
                            Response(200, Feed(<<EntrySparse, EntrySurvey>>))})]

\* concurrent requests
Next == Serve(Requests, RaceInputs)

Spec == Init /\ [][Next]_vars

\* texts at the lengths the handlers cut at (lines 309, 351, 390), and the
\* 20000 characters of the specification's scenario
LongDocuments ==
    { OnePage("a", StatusPreviewLength + 1),
      OnePage("a", PreviewLength),
      OnePage("a", PreviewLength + 1),
      TwoPages(max_content_length),
      TwoPages(max_content_length + 1),
      TwoPages(20000) }

AllDocuments ==
    RaceDocuments
        \cup {DocBroken, DocNoPages, DocBlank, DocGateBelow, DocFallbackBelow}
        \cup LongDocuments

\* every request body and every document, a few searches
SerialInputs ==
    [download_bodies |-> DownloadBodies,
     documents |-> AllDocuments,
     ask_bodies |-> AskBodies,
     searches |-> RaceInputs.searches]

\* one request at a time
SerialNext == Serve({1}, SerialInputs)

SerialSpec == Init /\ [][SerialNext]_vars

\* one request at a time, for every link and a document that is cached or not
ResolveInputs ==
    [download_bodies |-> {Some([link |-> link]) : link \in Links},
     documents |-> {DocGateAt, DocBroken},
     ask_bodies |-> {Some([question |-> Question])},
     searches |-> Searches({Some(QueryAttention)}, {Some(1)}, {RequestRaises})]

ResolveNext == Serve({1}, ResolveInputs)

ResolveSpec == Init /\ [][ResolveNext]_vars

\* every query, limit and feed
FetchInputs == Searches(Queries, Limits, FeedOutcomes(Feeds))

\* one search, of a server that has answered nothing yet
FetchNext ==
    \/ /\ response = NoResponse
       /\ \E s \in FetchInputs : search(s.query, s.max_results, s.net)
    \/ /\ response = NoResponse
       /\ \E s \in FetchInputs : get_papers(s.query, s.max_results, s.net)

FetchSpec == Init /\ [][FetchNext]_vars

(***************************************************************************)
(* Properties                                                              *)
(***************************************************************************)

\* the response of a download request that called download_paper_pdf
IsDownloadAttempt(resp) ==
    resp.handler = "download_paper" /\ "call" \in DOMAIN resp

\* PyMuPDF read the document of the call without raising
PrimaryCompleted(call) ==
    /\ call.net.kind = "response"
    /\ call.net.status_code = 200
    /\ ~call.net.content.fitz.raises

PrimaryText(call) ==
    FitzText(call.net.content.fitz.pages, Len(call.net.content.fitz.pages))

SecondaryText(call) ==
    PyPDF2Text(call.net.content.pypdf.pages, Len(call.net.content.pypdf.pages))

\* C1: whenever PyMuPDF completes without raising but its text, stripped,
\* is shorter than 100 characters, PyPDF2 is attempted on the same bytes,
\* and the call returns the PyPDF2 text if that text passes the gate.
C1_SecondaryTriedAfterShortPrimary ==
    ( /\ IsDownloadAttempt(response)
      /\ PrimaryCompleted(response.call)
      /\ len(strip(PrimaryText(response.call))) < 100 )
    => /\ response.call.attempts = <<"get", "fitz", "pypdf">>
       /\ ( /\ ~response.call.net.content.pypdf.raises
            /\ len(strip(SecondaryText(response.call))) >= 100 )
          => response.call.full_text = Some(SecondaryText(response.call))

\* C4: under any interleaving of download requests, once an id has an entry
\* in paper_content_cache the text stored under it never changes and the
\* entry is never removed.
C4_CacheEntriesNeverChange ==
    [][\A paper_id \in DOMAIN paper_content_cache :
           /\ paper_id \in DOMAIN paper_content_cache'
           /\ paper_content_cache'[paper_id] = paper_content_cache[paper_id]]_vars

\* C5: a download request with a non-empty link for a paper that is in the
\* cache when the request starts makes no call of download_paper_pdf (no
\* download, no extraction), leaves the cache unchanged, and answers success
\* with text_length the length of the cached text.
C5_CachedDownloadIsNoOp ==
    [][\A r \in Requests :
           (frame[r].cached_at_start /\ pc[r] # "idle" /\ pc'[r] = "idle")
           => /\ paper_content_cache' = paper_content_cache
              /\ response'.handler = "download_paper"
              /\ response'.paper_id = frame[r].paper_id
              /\ "call" \notin DOMAIN response'
              /\ response'.status = 200
              /\ response'.json.success
              /\ response'.json.text_length =
                     len(paper_content_cache[frame[r].paper_id])]_vars

\* a download request for a paper cached when it started has been answered
C5_Witness ==
    /\ response.handler = "download_paper"
    /\ "cached_at_start" \in DOMAIN response
    /\ response.cached_at_start
    /\ response.json.text_length > 0

\* the failure of a call of download_paper_pdf that returned None
FailureKind(call) ==
    CASE call.exit \in {58, 103} -> "download-failed"
      [] call.exit = 99 -> "extraction-failed"
      [] call.exit \in {74, 92} -> "content-too-short"

IsFailedDownload(resp) ==
    IsDownloadAttempt(resp) /\ ~resp.call.full_text.some

\* what the caller of the download operation receives
Received(resp) == [status |-> resp.status, json |-> resp.json]

\* C6: a failed extraction reports which of the three failures occurred
\* (download-failed, extraction-failed, content-too-short): two failures of
\* different kinds are answered differently.
C6_FailuresAreToldApart ==
    [][( /\ IsFailedDownload(response)
         /\ IsFailedDownload(response')
         /\ FailureKind(response.call) # FailureKind(response'.call) )
       => Received(response) # Received(response')]_vars

\* the text is what one of the two libraries extracted from a document
IsExtractedText(text) ==
    \E d \in AllDocuments :
        \/ ~d.fitz.raises /\ text = FitzText(d.fitz.pages, Len(d.fitz.pages))
        \/ /\ d.fitz.raises
           /\ ~d.pypdf.raises
           /\ text = PyPDF2Text(d.pypdf.pages, Len(d.pypdf.pages))

\* C7: every text stored in paper_content_cache was returned by a successful
\* extraction and has length >= 100 after stripping leading and trailing
\* whitespace.
C7_CachedTextsPassedTheGate ==
    \A paper_id \in DOMAIN paper_content_cache :
        /\ IsExtractedText(paper_content_cache[paper_id])
        /\ len(strip(paper_content_cache[paper_id])) >= 100

\* texts of exactly 100 characters once stripped are cached, one from each
\* library
C7_Witness ==
    /\ DOMAIN paper_content_cache = PaperIds
    /\ \A paper_id \in PaperIds :
           len(strip(paper_content_cache[paper_id])) = 100
    /\ \E paper_id \in PaperIds :
           paper_content_cache[paper_id]
               = PyPDF2Text(DocFallbackAt.pypdf.pages, 1)
    /\ \E paper_id \in PaperIds :
           paper_content_cache[paper_id] = FitzText(DocGateAt.fitz.pages, 1)

IsLookup(resp) == resp.handler \in {"get_paper_content", "ask_paper_question"}

\* C8 as stated: a paper id is in the cache iff an earlier download request
\* for it succeeded; get_paper_content and ask_paper_question answer 404 for
\* an id never downloaded, and never 404 for one that was.
C8_NotFoundIffNeverDownloaded ==
    /\ DOMAIN paper_content_cache = downloaded
    /\ IsLookup(response)
       => (response.status = 404 <=> response.paper_id \notin downloaded)

\* the request of the response carried a JSON body with a non-empty question
HasQuestion(resp) ==
    /\ resp.data.some
    /\ DictGetOr(resp.data.value, "question", <<>>) # <<>>

\* C8, amended: ... ask_paper_question answers 404 for an id never
\* downloaded when the request carries a non-empty question.
C8_NotFoundIffNeverDownloaded_Amended ==
    /\ DOMAIN paper_content_cache = downloaded
    /\ (response.handler = "get_paper_content"
           \/ (response.handler = "ask_paper_question" /\ HasQuestion(response)))
       => (response.status = 404 <=> response.paper_id \notin downloaded)

\* one paper downloaded and the other asked about, with a question
C8_Witness ==
    /\ downloaded # {}
    /\ response.handler = "ask_paper_question"
    /\ HasQuestion(response)
    /\ response.paper_id \notin downloaded
    /\ response.status = 404

\* C9: ask_paper_question, given a non-empty question, returns a cached text
\* of at most 15000 characters unchanged with is_truncated false, and of a
\* longer one the first 7500 characters, the truncation marker and the last
\* 7500 characters, with is_truncated true.
C9_QuestionContentWithinBudget ==
    (response.handler = "ask_paper_question" /\ response.status = 200)
    => LET text == paper_content_cache[response.paper_id]
           L == len(text)
       IN  IF L <= 15000
           THEN /\ response.json.paper_content = text
                /\ response.json.is_truncated = FALSE
           ELSE /\ response.json.paper_content =
                       Cat(Cat(Take(text, 7500), TruncationMarker),
                           Drop(text, L - 7500))
                /\ len(response.json.paper_content)
                       = 7500 + len(TruncationMarker) + 7500
                /\ response.json.is_truncated = TRUE

\* a text of 15001 characters has been cut
C9_Witness ==
    /\ response.handler = "ask_paper_question"
    /\ response.status = 200
    /\ response.json.content_length = 15001
    /\ response.json.is_truncated

\* C10: get_paper_content returns the whole cached text, without the
\* marker "...", when it has at most 1000 characters, and otherwise its
\* first 1000 characters followed by "..."; full_length is the length of
\* the cached text.
C10_PreviewWithinLimit ==
    (response.handler = "get_paper_content" /\ response.status = 200)
    => LET text == paper_content_cache[response.paper_id]
           L == len(text)
       IN  /\ response.json.full_length = L
           /\ IF L <= 1000
              THEN response.json.preview = text
              ELSE /\ response.json.preview
                          = Cat(Take(text, 1000), Str(<<".", ".", ".">>))
                   /\ len(response.json.preview) = 1000 + 3

\* a text of 1001 characters has been cut
C10_Witness ==
    /\ response.handler = "get_paper_content"
    /\ response.status = 200
    /\ response.json.full_length = 1001
    /\ len(response.json.preview) = 1003


\* the response of a search, and the list of papers in it
IsSearch(resp) == resp.handler \in {"search", "get_papers"}

Papers(resp) == IF resp.handler = "search" THEN resp.json.papers ELSE resp.json

\* the metadata source answered 200 with a feed that parses
FeedAnswered(net) ==
    net.kind = "response" /\ net.status_code = 200 /\ net.content.parses

\* the entries of the feed that lines 142-151 read without an exception
ParseableEntries(entries) ==
    {k \in Indices(entries) : ParseEntry(entries[k], 0).some}

\* C2: when the metadata source answers with success and a feed holding
\* more than max_results parseable entries, fetch_arxiv_papers_simple
\* returns at most max_results records, the first max_results in feed order.
C2_AtMostMaxResultsFromFeed ==
    ( /\ IsSearch(response)
      /\ FeedAnswered(response.net)
      /\ Cardinality(ParseableEntries(response.net.content.entries))
             > response.max_results )
    => /\ Len(Papers(response)) <= response.max_results
       /\ Papers(response) =
              SubSeq(ParseEntries(response.net.content.entries,
                                  Len(response.net.content.entries)),
                     1, response.max_results)

\* the request raised, or was answered with another status than 200, with a
\* body that does not parse, or with a feed without entries
SourceFailed(net) ==
    \/ net.kind = "raise"
    \/ net.status_code # 200
    \/ ~net.content.parses
    \/ Len(net.content.entries) = 0

\* the record is a copy of an entry of MOCK_PAPERS
IsMockCopy(paper) ==
    \E k \in Indices(MOCK_PAPERS) :
        \A field \in DOMAIN MOCK_PAPERS[k] : paper[field] = MOCK_PAPERS[k][field]

\* C3: for every string query and every max_results >= 1, when the metadata
\* request raises, returns a status other than 200, a body that cannot be
\* parsed or a feed with no entries, fetch_arxiv_papers_simple raises nothing
\* and returns only records copied from MOCK_PAPERS, at most max_results.
C3_FallbackOnlyFromCatalog ==
    (IsSearch(response) /\ SourceFailed(response.net))
    => /\ response.status = 200
       /\ Len(Papers(response)) <= response.max_results
       /\ \A i \in Indices(Papers(response)) : IsMockCopy(Papers(response)[i])

\* an answer with another status than 200 whose body is a feed with entries,
\* answered with as many catalog entries as asked for
C3_Witness ==
    /\ IsSearch(response)
    /\ response.net.kind = "response"
    /\ response.net.status_code # 200
    /\ response.net.content.parses
    /\ Len(response.net.content.entries) > 0
    /\ Len(Papers(response)) = response.max_results
    /\ \A i \in Indices(Papers(response)) : IsMockCopy(Papers(response)[i])

\* C11: every record returned by fetch_arxiv_papers_simple, from the live
\* feed or from the fallback catalog, carries a category field equal to the
\* query.
C11_EveryRecordCarriesTheQuery ==
    IsSearch(response)
    => \A i \in Indices(Papers(response)) :
           /\ "category" \in DOMAIN Papers(response)[i]
           /\ Papers(response)[i].category = response.query

\* C12: when the metadata source answers with success but no record is
\* parsed from the feed (no entries, or every entry skipped),
\* fetch_arxiv_papers_simple returns the fallback selection for the query
\* instead of an empty list.
C12_NoParsedRecordFallsBack ==
    ( /\ IsSearch(response)
      /\ FeedAnswered(response.net)
      /\ ParseableEntries(response.net.content.entries) = {} )
    => /\ Papers(response) # <<>>
       /\ Papers(response) =
              get_mock_papers_for_query(response.query, response.max_results)

\* C13: within the list one call of fetch_arxiv_papers_simple returns, no
\* two records have the same id, also when two entries of the feed have the
\* same link and when entries are skipped.
C13_IdsUniqueWithinBatch ==
    IsSearch(response)
    => \A i, j \in Indices(Papers(response)) :
           i # j => Papers(response)[i].id # Papers(response)[j].id

\* two records built from entries with the same link
C13_Witness ==
    /\ IsSearch(response)
    /\ FeedAnswered(response.net)
    /\ Len(Papers(response)) = 2
    /\ Papers(response)[1].link = Papers(response)[2].link
    /\ Papers(response)[1].id # Papers(response)[2].id

\* an occurrence of '/abs/' in the link starts at position k
AbsAt(link, k) ==
    /\ k >= 1
    /\ k + 4 <= Len(link)
    /\ SubSeq(link, k, k + 4) = <<"/","a","b","s","/">>

\* C14: download_paper_pdf requests a link that contains 'arxiv.org/abs/'
\* with '/abs/' replaced by '/pdf/' and '.pdf' appended, so that
\* https://arxiv.org/abs/1706.03762 becomes
\* https://arxiv.org/pdf/1706.03762.pdf, and every other link unchanged.
C14_AbstractLinkBecomesPdfLink ==
    IsDownloadAttempt(response)
    => LET link == response.call.paper_link
           requested == response.call.requested
       IN  /\ IF \E k \in 1..Len(link) :
                     /\ AbsAt(link, k)
                     /\ k > 9
                     /\ SubSeq(link, k - 9, k - 1)
                            = <<"a","r","x","i","v",".","o","r","g">>
              THEN /\ Len(requested) = Len(link) + 4
                   /\ SubSeq(requested, Len(link) + 1, Len(link) + 4)
                          = <<".","p","d","f">>
                   /\ \A i \in 1..Len(link) :
                          requested[i] =
                              IF \E k \in (i - 4)..i : AbsAt(link, k)
                              THEN <<"/","p","d","f","/">>[
                                       i + 1 - CHOOSE k \in (i - 4)..i :
                                                   AbsAt(link, k)]
                              ELSE link[i]
              ELSE requested = link
           /\ link = ArxivLink
              => requested =
                     <<"h","t","t","p","s",":","/","/","a","r","x","i","v",".",
                       "o","r","g","/","p","d","f","/","1","7","0","6",".",
                       "0","3","7","6","2",".","p","d","f">>

\* a download of the link with '/abs/' twice
C14_Witness ==
    /\ IsDownloadAttempt(response)
    /\ response.call.paper_link = ArchiveLink
    /\ response.call.requested # ArchiveLink
    /\ response.status = 200

\* the entry the i-th record of a live answer was built from: the i-th of
\* the entries that parse
NthParseable(entries, i) ==
    CHOOSE k \in ParseableEntries(entries) :
        Cardinality({m \in ParseableEntries(entries) : m <= k}) = i

\* the live feed answered and at least one record was built from it
IsLiveAnswer(resp) ==
    /\ IsSearch(resp)
    /\ FeedAnswered(resp.net)
    /\ Len(resp.net.content.entries) > 0
    /\ Len(Papers(resp)) = Cardinality(ParseableEntries(resp.net.content.entries))

\* the names in the author elements of an entry that have a name, in order
NamedAuthors(entry) ==
    LET named == SelectSeq(entry.authors, LAMBDA a : a.kind = "text")
    IN  [i \in 1..Len(named) |-> chars_strip(named[i].text)]

\* C15: every record built from a feed entry has a non-empty authors
\* sequence: ['Unknown Author'] for an entry without author names, and the
\* names in feed order for an entry with author names.
C15_AuthorsNeverEmpty ==
    ( /\ IsSearch(response)
      /\ FeedAnswered(response.net)
      /\ Len(response.net.content.entries) > 0 )
    => /\ IsLiveAnswer(response)
       /\ \A i \in Indices(Papers(response)) :
              LET entries == response.net.content.entries
                  entry == entries[NthParseable(entries, i)]
                  authors == Papers(response)[i].authors
              IN  /\ authors # <<>>
                  /\ IF Len(NamedAuthors(entry)) = 0
                     THEN authors =
                              << <<"U","n","k","n","o","w","n"," ",
                                   "A","u","t","h","o","r">> >>
                     ELSE authors = NamedAuthors(entry)

\* a record with two names in feed order, and after it one of an entry
\* without author elements
C15_Witness ==
    /\ IsLiveAnswer(response)
    /\ Len(Papers(response)) = 2
    /\ Papers(response)[1].authors =
           << <<"A","n","n"," ","L","e","e">>, <<"B","o","b"," ","R","o","y">> >>
    /\ Papers(response)[2].authors =
           << <<"U","n","k","n","o","w","n"," ","A","u","t","h","o","r">> >>
    /\ response.net.content.entries[2].authors = <<>>

\* C16: summary normalization (every run of whitespace collapsed to one
\* space, as applied to each entry's summary) is idempotent: applied to a
\* normalized summary it returns that summary unchanged.
C16_NormalizationIdempotent ==
    IsLiveAnswer(response)
    => \A i \in Indices(Papers(response)) :
           collapse_whitespace(Papers(response)[i].summary)
               = Papers(response)[i].summary

\* a record whose summary was changed by the normalization
C16_Witness ==
    /\ IsLiveAnswer(response)
    /\ Len(Papers(response)) >= 1
    /\ LET entries == response.net.content.entries
           entry == entries[NthParseable(entries, 1)]
       IN  /\ Papers(response)[1].summary # chars_strip(entry.summary.value)
           /\ Len(Papers(response)[1].summary)
                  < Len(chars_strip(entry.summary.value))

\* the document request of the call was answered 200
DownloadSucceeded(call) ==
    call.net.kind = "response" /\ call.net.status_code = 200

\* C17: within one call of download_paper_pdf at most one download is
\* issued; PyMuPDF is attempted at most once and only after a successful
\* download; PyPDF2 is attempted at most once and only after PyMuPDF raised;
\* a failed download attempts neither.
C17_StepsOrderedNeverRepeated ==
    IsDownloadAttempt(response)
    => LET call == response.call
           attempts == call.attempts
           Count(step) ==
               Cardinality({i \in Indices(attempts) : attempts[i] = step})
           Before(first, second) ==
               \A i, j \in Indices(attempts) :
                   (attempts[i] = first /\ attempts[j] = second) => i < j
       IN  /\ Count("get") = 1
           /\ Count("fitz") <= 1
           /\ Count("pypdf") <= 1
           /\ Before("get", "fitz")
           /\ Before("fitz", "pypdf")
           /\ Count("fitz") = 1 => DownloadSucceeded(call)
           /\ Count("pypdf") = 1
                  => /\ Count("fitz") = 1
                     /\ call.net.content.fitz.raises
           /\ ~DownloadSucceeded(call) => attempts = <<"get">>

\* a call that went through the three steps and returned the PyPDF2 text
C17_Witness ==
    /\ IsDownloadAttempt(response)
    /\ response.call.attempts = <<"get", "fitz", "pypdf">>
    /\ response.call.exit = 95
    /\ response.status = 200

\* the catalog entries whose lower-cased title and summary contain a
\* lower-cased token of the query
Matching(query) ==
    LET tokens == chars_split(chars_lower(query))
    IN  {k \in Indices(MOCK_PAPERS) :
            \E w \in Indices(tokens) :
                Contains(chars_lower(MOCK_PAPERS[k].title \o <<" ">>
                                         \o MOCK_PAPERS[k].summary),
                         tokens[w])}

\* the record is the copy of catalog entry k, counted from 1
IsCopyOfEntry(paper, k) ==
    /\ paper.id = <<"m","o","c","k","_">> \o Decimal(k - 1)
    /\ paper.has_full_text = FALSE
    /\ \A field \in DOMAIN MOCK_PAPERS[k] : paper[field] = MOCK_PAPERS[k][field]

\* C18: get_mock_papers_for_query returns, in catalog order, only entries
\* whose lower-cased title and summary contain a lower-cased token of the
\* query when such an entry exists, and the first max_results entries when
\* none does (also for an empty or blank query); every returned entry has
\* has_full_text false and the id mock_<catalog index>.
C18_FallbackSelection ==
    (IsSearch(response) /\ SourceFailed(response.net))
    => LET papers == Papers(response)
           matching == Matching(response.query)
       IN  \E index \in [Indices(papers) -> Indices(MOCK_PAPERS)] :
               /\ \A i \in Indices(papers) : IsCopyOfEntry(papers[i], index[i])
               /\ \A i, j \in Indices(papers) : i < j => index[i] < index[j]
               /\ IF matching # {}
                  THEN \A i \in Indices(papers) : index[i] \in matching
                  ELSE /\ Len(papers)
                              = Min(response.max_results, Len(MOCK_PAPERS))
                       /\ \A i \in Indices(papers) : index[i] = i

\* a fallback answer to a query in capitals with two spaces, of entries that
\* match, the first entry of the catalog among them
C18_Witness ==
    /\ IsSearch(response)
    /\ SourceFailed(response.net)
    /\ response.query = QueryNeuralNetworks
    /\ Matching(response.query) # {}
    /\ Len(Papers(response)) >= 1
    /\ IsCopyOfEntry(Papers(response)[1], 1)

\* C19: the only step that changes paper_content_cache is the insert of a
\* download request whose extraction succeeded; a download request that
\* fails and every search, preview, question, cache-status and health
\* request leave the cache as it was.
C19_OnlySuccessfulDownloadChangesCache ==
    [][paper_content_cache' # paper_content_cache
       => /\ IsDownloadAttempt(response')
          /\ response'.status = 200
          /\ response'.call.full_text.some
          /\ DOMAIN paper_content_cache'
                 = DOMAIN paper_content_cache \cup {response'.paper_id}
          /\ paper_content_cache'[response'.paper_id]
                 = response'.call.full_text.value
          /\ \A paper_id \in DOMAIN paper_content_cache \ {response'.paper_id} :
                 paper_content_cache'[paper_id] = paper_content_cache[paper_id]]_vars

\* a download that failed below the gate, answered with a paper in the cache
C19_Witness ==
    /\ IsFailedDownload(response)
    /\ response.call.exit = 92
    /\ response.paper_id \notin DOMAIN paper_content_cache
    /\ paper_content_cache # EmptyDict

====
